---- MODULE Spec2Model ----
(***************************************************************************)
(* Model of the request processing pipeline of the immigration appointment *)
(* system: the Celery task process_email_task (app/workers/email_worker),  *)
(* the slot allocator (app/services/appointment_service) and the           *)
(* compliance evaluator (app/services/rag_service).                        *)
(*                                                                         *)
(* Every pipeline run owns a SQLAlchemy session.  A query reads the        *)
(* committed rows of the database; the assignments made to loaded objects  *)
(* are written, as absolute column values, when the session commits.  One  *)
(* action of the model is one database round trip (a query or a commit)    *)
(* together with the in-memory code that precedes it.                      *)
(*                                                                         *)
(* Time is counted in ticks of one day.                                    *)
(***************************************************************************)
EXTENDS Integers, Sequences, FiniteSets, Bags, TLC

\* ---------------------------------------------------------------- bounds
NumRuns == 2
MaxTime == 1
NumDays == 1
SlotsPerDay == 1
MaxFailures == 1

\* ------------------------------------------------------ program constants
WINDOW_SECONDS == 86400
SLOT_CAPACITY == 1
SecondsPerTick == 24 * 3600
TicksPerDay == (24 * 3600) \div SecondsPerTick

Runs == 1..NumRuns
NULL == 0

VARIABLES
    now,            \* the clock (datetime.now / func.now())
    msg,            \* email_data of each run
    pc,             \* position of each run in process_email_task
    loc,            \* local variables and session state of each run
    students,       \* table students
    requests,       \* table requests
    appointments,   \* table appointments
    slots,          \* table available_slots
    sent,           \* confirmations handed to the notification service
    failures,       \* number of collaborator calls that have raised
    ev,             \* one call of RAGService.compare_with_guidelines
    workers,        \* number of Celery worker processes
    driver,         \* one call of process_all_emails_task
    documents,      \* table documents
    index           \* entries of the vector database

vars == <<now, msg, pc, loc, students, requests, appointments, slots, sent,
          failures, ev, workers, driver, documents, index>>

\* ------------------------------------------------------------------ tables
RequestStatus == {"pending", "processing", "categorized", "approved",
                  "rejected", "appointment_scheduled", "completed"}

RequestType == {"residence_permit_extension", "residence_permit_new",
                "visa_extension", "temporary_visa", "work_permit", "other"}

\* str(list): the text stored in a Text column for a Python list
Str(list) == [repr |-> list]

\* ------------------------------------------------------------------ strings
\* A text is modelled as a set of fragments.  Needles(f) lists the search
\* strings of the code that occur in the lower-cased fragment f, so that the
\* Python test `needle in text.lower()` is Occurs(needle, text).
Lower(s) ==
    CASE s = "Not compliant" -> "not compliant"
      [] s = "Compliant" -> "compliant"
      [] s = "Passport" -> "passport"
      [] s = "Yes" -> "yes"
      [] s = "Photo" -> "photo"
      [] s = "Attached: passport copy" -> "attached: passport copy"
      [] s = "My Travel Document is attached" -> "my travel document is attached"
      [] s = "Please extend my permit" -> "please extend my permit"
      [] s = "PASSPORT NO. X123" -> "passport no. x123"
      [] s = "Required documents:" -> "required documents:"
      [] s = "- Current valid passport" -> "- current valid passport"
      [] s = "- Photo" -> "- photo"
      [] s = "- Passport" -> "- passport"
      [] s = "Bring your passport - no copies" -> "bring your passport - no copies"
      [] s = "Passport is optional" -> "passport is optional"
      [] s = "Passport not needed" -> "passport not needed"
      [] s = "Document: passport.pdf" -> "document: passport.pdf"
      [] s = "Document: transcript.pdf" -> "document: transcript.pdf"
      [] s = "Document: enrolment.pdf" -> "document: enrolment.pdf"
      [] s = "Document: photo.jpg" -> "document: photo.jpg"
      [] s = "Document: " -> "document: "
      [] s = "Transcript of records" -> "transcript of records"
      [] s = "Certificate of enrolment" -> "certificate of enrolment"
      [] OTHER -> s

Needles(f) ==
    CASE f = "not compliant" -> {"not compliant", "compliant"}
      [] f = "is compliant" -> {"is compliant", "compliant"}
      [] f = "incomplete" -> {"incomplete", "complete"}
      [] f = "missing" -> {"missing"}
      [] f = "compliant" -> {"compliant"}
      [] f = "invalid" -> {"valid"}
      [] f = "is_compliant: true" -> {"is_compliant", "compliant"}
      [] f = "is_compliant: false" -> {"is_compliant", "compliant"}
      [] f = "attached: passport copy" -> {"passport", "passport copy"}
      [] f = "my travel document is attached" -> {"travel document", "document"}
      [] f = "passport no. x123" -> {"passport", "passport no"}
      [] f = "required documents:" -> {"required", "document"}
      [] f = "- current valid passport" -> {"valid", "passport", "-"}
      [] f = "- photo" -> {"-"}
      [] f = "- passport" -> {"passport", "-"}
      [] f = "bring your passport - no copies" -> {"passport", "-"}
      [] f = "passport is optional" -> {"passport"}
      [] f = "passport not needed" -> {"passport"}
      [] f = "document: passport.pdf" -> {"document", "passport"}
      [] f = "document: transcript.pdf" -> {"document"}
      [] f = "document: enrolment.pdf" -> {"document"}
      [] f = "document: photo.jpg" -> {"document"}
      [] f = "document: " -> {"document"}
      [] OTHER -> {}

LowerText(text) == {Lower(f) : f \in text}
Occurs(needle, text_lower) == \E f \in text_lower : needle \in Needles(f)

\* dict.get(key, default)
Get(d, k, default) == IF k \in DOMAIN d THEN d[k] ELSE default

\* [x.lower() for x in list]
LowerAll(list) == {Lower(list[i]) : i \in 1..Len(list)}

\* ------------------------------------------------- compliance evaluator
NoMatch == 0 - 1
DEFAULT_SCORE == 50
FULL_SCORE == 100
LOW_SCORE == 30

negative_indicators ==
    {"not compliant", "non-compliant", "non compliant", "missing",
     "incomplete", "insufficient", "does not meet", "doesn't meet",
     "fails to", "rejected", "rejection", "cannot be approved"}

positive_indicators ==
    {"is compliant", "fully compliant", "meets requirements", "all required",
     "complete", "sufficient", "approved", "acceptable", "valid"}

\* the keyword fallback without its keywords
passport_keywords_none == {}

passport_keywords ==
    {"passport", "passport number", "passport no", "passport #",
     "passport id", "passport document", "travel document", "passport page",
     "passport copy", "passport details"}

\* group(1) of re.search(score_patterns[k], f), as a number, or NoMatch
ScoreGroup(k, f) ==
    CASE f = "\"compliance_score\": 70" -> 70
      [] f = "compliance_score: 80" /\ k \in {2, 3} -> 80
      [] f = "score: 20" /\ k = 3 -> 20
      [] f = "score: 150" /\ k = 3 -> 150
      [] f = "45%" /\ k = 4 -> 45
      [] OTHER -> NoMatch

ScoreSearch(k, text_lower) ==
    LET ms == {ScoreGroup(k, f) : f \in text_lower} \ {NoMatch}
    IN  IF ms = {} THEN NoMatch ELSE CHOOSE m \in ms : TRUE

\* re.search(r'is_compliant["\s:]*true', text_lower) and ...false
KeyTrueSearch(text_lower) == "is_compliant: true" \in text_lower
KeyFalseSearch(text_lower) == "is_compliant: false" \in text_lower

\* the coercion of parsed["is_compliant"] (a JSON value) to a bool
CoerceFlag(v) ==
    CASE v.type = "bool" -> v.v = "true"
      [] v.type = "str" -> Lower(v.v) \in {"true", "yes", "1", "compliant"}
      [] v.type = "num" -> v.v # "0"
      [] OTHER -> FALSE

\* the keyword classification of an unparsable response
FallbackFlag(text_lower) ==
    LET has_negative == \E i \in negative_indicators : Occurs(i, text_lower)
        has_positive == \E i \in positive_indicators : Occurs(i, text_lower)
    IN  IF has_negative /\ ~has_positive THEN FALSE
        ELSE IF has_positive /\ ~has_negative THEN TRUE
        ELSE IF Occurs("is_compliant", text_lower)
             THEN IF KeyTrueSearch(text_lower) THEN TRUE
                  ELSE IF KeyFalseSearch(text_lower) THEN FALSE
                  ELSE FALSE
        ELSE IF Occurs("not compliant", text_lower)
                    \/ Occurs("non-compliant", text_lower) THEN FALSE
        ELSE IF Occurs("compliant", text_lower) THEN TRUE
        ELSE FALSE

FallbackScore(text_lower, is_compliant) ==
    LET valid == {k \in 1..4 : ScoreSearch(k, text_lower) \in 0..100}
        first == CHOOSE k \in valid : \A j \in valid : k <= j
        compliance_score == IF valid = {} THEN DEFAULT_SCORE
                            ELSE ScoreSearch(first, text_lower)
    IN  IF is_compliant /\ compliance_score < 50 THEN FULL_SCORE
        ELSE IF ~is_compliant /\ compliance_score > 50 THEN LOW_SCORE
        ELSE compliance_score

\* A response is either text in which the patterns find a JSON object
\* carrying "is_compliant" (kind "json", the parsed object in .json) or text
\* in which they find none (kind "text", its fragments in .text).
_parse_compliance_analysis(analysis) ==
    IF analysis.kind = "json"
    THEN [analysis.json EXCEPT
            !.is_compliant = CoerceFlag(analysis.json.is_compliant)]
    ELSE LET text_lower == LowerText(analysis.text)
             is_compliant == FallbackFlag(text_lower)
         IN  [is_compliant |-> is_compliant,
              compliance_score |-> FallbackScore(text_lower, is_compliant),
              present_documents |-> <<>>,
              missing_documents |-> <<>>,
              required_documents |-> <<>>]

\* line.strip().startswith('-') or line.strip().startswith('•')
StartsWithBullet(line) ==
    line \in {"- Current valid passport", "- Photo", "- Passport"}

\* the loop over the lines of the guideline, from line i on
RECURSIVE ExtractLoop(_, _, _, _)
ExtractLoop(lines, i, in_requirements_section, required_docs) ==
    IF i > Len(lines) THEN required_docs
    ELSE LET line_lower == {Lower(lines[i])}
         IN  IF Occurs("required", line_lower)
                  /\ (Occurs("document", line_lower) \/ Occurs("valid", line_lower))
             THEN ExtractLoop(lines, i + 1, TRUE, required_docs)
             ELSE IF in_requirements_section /\ StartsWithBullet(lines[i])
                       /\ Occurs("passport", line_lower)
                       /\ "passport" \notin LowerAll(required_docs)
                  THEN ExtractLoop(lines, i + 1, in_requirements_section,
                                   Append(required_docs, "passport"))
                  ELSE ExtractLoop(lines, i + 1, in_requirements_section,
                                   required_docs)

\* guideline_text is the sequence of its lines; the empty text has none
_extract_required_documents_from_guideline(guideline_text) ==
    IF guideline_text = <<>> THEN <<>>
    ELSE LET guideline_lower == {Lower(guideline_text[i]) : i \in 1..Len(guideline_text)}
             required_docs == ExtractLoop(guideline_text, 1, FALSE, <<>>)
         IN  IF required_docs = <<>> /\ Occurs("passport", guideline_lower)
                  /\ (Occurs("required", guideline_lower) \/ Occurs("-", guideline_lower))
             THEN <<"passport">>
             ELSE required_docs

\* [doc for doc in list if doc.lower() not in lowered]
RECURSIVE NotIn(_, _)
NotIn(list, lowered) ==
    IF list = <<>> THEN <<>>
    ELSE IF Lower(Head(list)) \notin lowered
         THEN <<Head(list)>> \o NotIn(Tail(list), lowered)
         ELSE NotIn(Tail(list), lowered)

\* the verdict's compliance_score when the guideline extraction overrides
OverrideScore(missing_documents, guideline_required_docs) ==
    LET missing_count == Len(missing_documents)
        total_required == Len(guideline_required_docs)
    IN  IF missing_count = 0 THEN FULL_SCORE
        ELSE IF total_required > 0
             THEN ((total_required - missing_count) * 100) \div total_required
             ELSE 0

\* JSON null where a list is expected.  It is written as a one-element
\* sequence so that it can stand in a list field; iterating it raises
None_ == <<"<None>">>

\* lines 161-182: the override iterates present_documents (lines 176, 181),
\* which raises TypeError when the judgment's JSON carries null there.
\* Without the override nothing is iterated
compare_raises(student_text, student_documents, analysis, guideline_texts) ==
    /\ _extract_required_documents_from_guideline(
           IF guideline_texts # <<>> THEN guideline_texts[1] ELSE <<>>) # <<>>
    /\ Get(_parse_compliance_analysis(analysis), "present_documents", <<>>) = None_

\* the override without the assignment of line 162: the judgment's list stays
RequiredFromJudgment(compliance_data, guideline_required_docs) ==
    Get(compliance_data, "required_documents", <<>>)

\* line 162: the extracted list replaces the judgment's required_documents
RequiredAfterOverride(compliance_data, guideline_required_docs) ==
    guideline_required_docs

\* student_text and the elements of student_documents are fragments,
\* analysis is the judgment's response, guideline_texts the retrieved
\* guideline documents, best first
compare_with_guidelines(student_text, student_documents, analysis, guideline_texts) ==
    LET compliance_data == _parse_compliance_analysis(analysis)
        guideline_required_docs ==
            _extract_required_documents_from_guideline(
                IF guideline_texts # <<>> THEN guideline_texts[1] ELSE <<>>)
        combined_text_lower ==
            LowerText({student_text}
                      \cup {student_documents[i] : i \in 1..Len(student_documents)})
        has_passport_keywords ==
            \E keyword \in passport_keywords : Occurs(keyword, combined_text_lower)
        llm_present == Get(compliance_data, "present_documents", <<>>)
        present_docs ==
            IF "passport" \in LowerAll(guideline_required_docs)
                 /\ has_passport_keywords
                 /\ "passport" \notin LowerAll(llm_present)
            THEN Append(llm_present, "passport")
            ELSE llm_present
        missing_documents == NotIn(guideline_required_docs, LowerAll(present_docs))
    IN  IF guideline_required_docs # <<>>
        THEN [is_compliant |-> Len(missing_documents) = 0,
              compliance_score |-> OverrideScore(missing_documents, guideline_required_docs),
              present_documents |-> present_docs,
              missing_documents |-> missing_documents,
              required_documents |->
                  RequiredAfterOverride(compliance_data, guideline_required_docs)]
        ELSE [is_compliant |-> Get(compliance_data, "is_compliant", FALSE),
              compliance_score |-> Get(compliance_data, "compliance_score", 0),
              present_documents |-> Get(compliance_data, "present_documents", <<>>),
              missing_documents |-> Get(compliance_data, "missing_documents", <<>>),
              required_documents |-> Get(compliance_data, "required_documents", <<>>)]

SlotIds == 1..(NumDays * SlotsPerDay)

\* AvailableSlot rows written by create_available_slots(start_date, num_days,
\* slots_per_day): day-major, the slots of one day share slot_date
create_available_slots(start_date, num_days, slots_per_day) ==
    [s \in 1..(num_days * slots_per_day) |->
        [slot_date |-> start_date + ((s - 1) \div slots_per_day) * TicksPerDay,
         slot_time |-> ((s - 1) % slots_per_day) + 1,
         is_available |-> TRUE,
         max_capacity |-> SLOT_CAPACITY,
         current_bookings |-> 0]]

\* ------------------------------------------------------------ categorizer
category_map == RequestType

\* the fallback returning an empty text in place of the response
_parse_categorization_without_raw(response) ==
    IF response.kind = "json"
    THEN LET category == Get(response.json, "category", "other")
         IN  [category |-> IF category \in category_map THEN category ELSE "other",
              confidence |-> Get(response.json, "confidence", 0),
              raw_response |-> response]
    ELSE [category |-> "other", confidence |-> 0,
          raw_response |-> [kind |-> "text", text |-> {}]]

\* LLMService._parse_categorization: a response in which the pattern finds a
\* JSON object (kind "json") or not (kind "text")
_parse_categorization(response) ==
    IF response.kind = "json"
    THEN LET category == Get(response.json, "category", "other")
         IN  [category |-> IF category \in category_map THEN category ELSE "other",
              confidence |-> Get(response.json, "confidence", 0),
              raw_response |-> response]
    ELSE [category |-> "other", confidence |-> 0, raw_response |-> response]

\* the except branch without the assignment of line 191
CategorizationFailedUnset ==
    [category |-> "null", confidence |-> 0, raw_response |-> [kind |-> "llm_error"]]

\* the values of lines 191-194, written when categorize_request raises
CategorizationFailed ==
    [category |-> "other", confidence |-> 0, raw_response |-> [kind |-> "llm_error"]]

\* `not request.llm_analysis`
NoAnalysis(a) == a.kind = "none" \/ (a.kind = "text" /\ a.text = {})

\* ------------------------------------------------------------ slot allocator
\* the filter without its availability conditions
SlotIsOpenAnyCapacity(slot, t) == slot.slot_date > t

\* the filter of get_next_available_slot
SlotIsOpen(slot, t) ==
    /\ slot.is_available
    /\ slot.slot_date > t
    /\ slot.current_bookings < slot.max_capacity

\* the rows .order_by(slot_date.asc()).first() can return: the query has no
\* second sort key, so any of the earliest open slots
get_next_available_slot(t, table) ==
    {s \in DOMAIN table :
        /\ SlotIsOpen(table[s], t)
        /\ \A o \in DOMAIN table :
              SlotIsOpen(table[o], t) => table[s].slot_date <= table[o].slot_date}

\* the Appointment built with student_id passed in the place of request_id
NewAppointmentSwapped(student_id, request_id, slot, required_documents) ==
    [student_id |-> student_id,
     request_id |-> student_id,
     slot |-> slot,
     status |-> "scheduled",
     required_documents |-> Str(required_documents)]

\* the Appointment built by schedule_appointment; .slot stands for the pair
\* (appointment_date, appointment_time) copied from the slot
NewAppointment(student_id, request_id, slot, required_documents) ==
    [student_id |-> student_id,
     request_id |-> request_id,
     slot |-> slot,
     status |-> "scheduled",
     required_documents |-> Str(required_documents)]

\* ------------------------------------------------------------------ pipeline
\* email_address and name taken from the sender header
EmailAddress(sender) ==
    CASE sender = "Amy <amy@uni.edu>" -> "amy@uni.edu"
      [] OTHER -> sender

\* the window test with the comparison reversed
WithinWindowReversed(t, created_at) == (t - created_at) * SecondsPerTick > WINDOW_SECONDS

\* the window test with the bound included
WithinWindowInclusive(t, created_at) == (t - created_at) * SecondsPerTick <= WINDOW_SECONDS

\* time_diff.total_seconds() < 86400
WithinWindow(t, created_at) == (t - created_at) * SecondsPerTick < WINDOW_SECONDS

\* processed_at records whether the column is set, not the time
NewRequest(student_id, subject, body, t) ==
    [student_id |-> student_id,
     email_subject |-> subject,
     email_body |-> body,
     status |-> "pending",
     request_type |-> "null",
     llm_confidence |-> 0,
     llm_analysis |-> [kind |-> "none"],
     is_compliant |-> FALSE,
     compliance_score |-> 0,
     missing_documents |-> [repr |-> "null"],
     required_documents |-> [repr |-> "null"],
     appointment_id |-> NULL,
     created_at |-> t,
     processed_at |-> FALSE]

\* the status of line 196 written at line 167
StatusAfterExtractionSkipping == "categorized"

StatusAfterExtraction == "processing"
StatusAfterCategorization == "categorized"
StatusAfterAllocation == "appointment_scheduled"

\* the allocation entered whatever the verdict
ShouldScheduleAlways(request) == TRUE

\* `if request.is_compliant:`
ShouldSchedule(request) == request.is_compliant

\* an attachment as fetch_emails hands it over: is_pdf is the test of lines
\* 89-92, on_disk the test os.path.exists(file_path); extraction tells how
\* the inner try of lines 96-135 ends for this file: "text" (text is
\* extracted), "empty" (extract_text returns no text), "raises"
\* (extract_text raises), "index_raises" (vector_db.add_document raises)
Attachment(filename, is_pdf, on_disk, extraction, text) ==
    [filename |-> filename, is_pdf |-> is_pdf, on_disk |-> on_disk,
     extraction |-> extraction, text |-> text]

Messages ==
    <<[sender |-> "Amy <amy@uni.edu>", subject |-> "Residence permit extension",
       body |-> "Attached: passport copy",
       attachments |-> <<Attachment("passport.pdf", TRUE, TRUE, "text",
                                    "PASSPORT NO. X123")>>],
      [sender |-> "bob@uni.edu", subject |-> "Residence permit extension",
       body |-> "Please extend my permit", attachments |-> <<>>],
      [sender |-> "Amy <amy@uni.edu>", subject |-> "Visa",
       body |-> "Please extend my permit", attachments |-> <<>>]>>

\* the deliveries of the runs: any choice of messages, repetitions included
\* (the runs are interchangeable, so they are numbered in message order)
Deliveries ==
    {[p \in Runs |-> Messages[d[p]]] :
        d \in {e \in [Runs -> DOMAIN Messages] :
                  \A p, q \in Runs : p <= q => e[p] <= e[q]}}

PassportGuideline == <<"Required documents:", "- Current valid passport">>

\* what the retrieval and the two judgments answer in a pipeline run
RetrievedGuidelines == {<<PassportGuideline>>}

JudgmentResponses ==
    {[kind |-> "json",
      json |-> [is_compliant |-> [type |-> "bool", v |-> "true"],
                compliance_score |-> 100,
                present_documents |-> <<"Passport">>,
                missing_documents |-> <<>>,
                required_documents |-> <<"Passport">>]],
     [kind |-> "text", text |-> {"Not compliant"}]}

CategoryResponses ==
    {[kind |-> "json", json |-> [category |-> "visa_extension", confidence |-> 85]],
     [kind |-> "text", text |-> {"This looks like a visa question"}]}

\* the responses of the categorizer to one request: the JSON object, and for
\* the message with subject "Question" also the text without a JSON object
CategoryResponsesFor(subject) ==
    IF subject = "Question" THEN CategoryResponses
    ELSE {c \in CategoryResponses : c.kind = "json"}

\* the locals of a run: student.id, request.id, the slot read with its
\* current_bookings, appointment.id, rag_result["required_documents"];
\* called records that schedule_appointment was entered, outcome the result;
\* idx is the position of the attachment loop, documents_text its list,
\* pending the Documents added to the session and not yet committed,
\* returned_id the request_id of the skipped result
LocInit == [student |-> NULL, request |-> NULL, slot |-> NULL,
            bookings_read |-> 0, appointment |-> NULL, called |-> FALSE,
            required |-> <<>>, outcome |-> "none",
            idx |-> 1, documents_text |-> <<>>, pending |-> <<>>,
            returned_id |-> NULL]

\* ev outside a call of the evaluator
EvIdle == [stage |-> "idle"]

\* driver outside a call of process_all_emails_task
DriverIdle == [stage |-> "idle"]

\* email_data of a task the broker has not delivered
NoMessage == [sender |-> "", subject |-> "", body |-> "", attachments |-> <<>>]

Init ==
    /\ ev = EvIdle
    /\ now = 0
    /\ msg \in Deliveries
    /\ pc = [p \in Runs |-> "gate"]
    /\ loc = [p \in Runs |-> LocInit]
    /\ students = <<>>
    /\ requests = <<>>
    /\ appointments = <<>>
    /\ slots = create_available_slots(TicksPerDay, NumDays, SlotsPerDay)
    /\ sent = EmptyBag
    /\ failures = 0
    /\ workers = NumRuns
    /\ driver = DriverIdle
    /\ documents = <<>>
    /\ index = <<>>

Tick ==
    /\ now < MaxTime
    /\ now' = now + 1
    /\ UNCHANGED <<msg, pc, loc, students, requests, appointments, slots, sent, failures, ev, workers, driver, documents, index>>

\* the return statements of process_email_task
Return(p, outcome) ==
    /\ pc' = [pc EXCEPT ![p] = "done"]
    /\ loc' = [loc EXCEPT ![p] = [LocInit EXCEPT !.request = loc[p].request,
                                                 !.appointment = loc[p].appointment,
                                                 !.called = loc[p].called,
                                                 !.outcome = outcome]]

\* the skipped result without its request_id
SkippedResultWithoutId(existing_request) == [LocInit EXCEPT !.outcome = "skipped"]

\* lines 36-40: the result returned for a duplicate
SkippedResult(existing_request) ==
    [LocInit EXCEPT !.outcome = "skipped", !.returned_id = existing_request]

\* a run that a worker has taken and not finished
InFlight(p) == pc[p] \notin {"gate", "done"}

\* celery_app lines 24-26: a worker of the solo pool runs one task at a time,
\* so a task starts only while a worker is free
WorkerFree == Cardinality({q \in Runs : InFlight(q)}) < workers

\* lines 29-40: the dedup gate.  .first() has no ORDER BY: any matching row
Gate(p) ==
    /\ pc[p] = "gate"
    /\ msg[p] # NoMessage
    /\ WorkerFree
    /\ LET matches == {r \in DOMAIN requests :
                          requests[r].email_subject = msg[p].subject}
       IN  \/ /\ matches = {}
              /\ pc' = [pc EXCEPT ![p] = "student"]
              /\ UNCHANGED loc
           \/ \E existing_request \in matches :
                IF WithinWindow(now, requests[existing_request].created_at)
                THEN /\ pc' = [pc EXCEPT ![p] = "done"]
                     /\ loc' = [loc EXCEPT ![p] = SkippedResult(existing_request)]
                ELSE /\ pc' = [pc EXCEPT ![p] = "student"]
                     /\ UNCHANGED loc
    /\ UNCHANGED <<now, msg, students, requests, appointments, slots, sent, failures, ev, workers, driver, documents, index>>

\* line 53: look the student up
StudentLookup(p) ==
    /\ pc[p] = "student"
    /\ LET found == {i \in DOMAIN students : students[i] = EmailAddress(msg[p].sender)}
       IN  IF found # {}
           THEN /\ loc' = [loc EXCEPT ![p].student = CHOOSE i \in found : TRUE]
                /\ pc' = [pc EXCEPT ![p] = "request"]
           ELSE /\ pc' = [pc EXCEPT ![p] = "student_insert"]
                /\ UNCHANGED loc
    /\ UNCHANGED <<now, msg, students, requests, appointments, slots, sent, failures, ev, workers, driver, documents, index>>

\* lines 54-59: insert the student; students.email is unique, so the commit
\* raises when another session inserted the address meanwhile, and the
\* handler (no request in locals) returns the error result
StudentInsert(p) ==
    /\ pc[p] = "student_insert"
    /\ IF \E i \in DOMAIN students : students[i] = EmailAddress(msg[p].sender)
       THEN /\ Return(p, "error")
            /\ UNCHANGED students
       ELSE /\ students' = Append(students, EmailAddress(msg[p].sender))
            /\ loc' = [loc EXCEPT ![p].student = Len(students) + 1]
            /\ pc' = [pc EXCEPT ![p] = "request"]
    /\ UNCHANGED <<now, msg, requests, appointments, slots, sent, failures, ev, workers, driver, documents, index>>

\* lines 61-69: insert the Request, status pending
CreateRequest(p) ==
    /\ pc[p] = "request"
    /\ requests' = Append(requests,
            NewRequest(loc[p].student, msg[p].subject, msg[p].body, now))
    /\ loc' = [loc EXCEPT ![p].request = Len(requests) + 1]
    /\ pc' = [pc EXCEPT ![p] = "extract"]
    /\ UNCHANGED <<now, msg, students, appointments, slots, sent, failures, ev, workers, driver, documents, index>>

\* the except branch that only logs and stores no Document
PendingAfterFailureDropped(pending, request_id, attachment) == pending

\* lines 137-154: the Document stored when the inner try raised
PendingAfterFailure(pending, request_id, attachment) ==
    Append(pending, [request_id |-> request_id,
                     filename |-> attachment.filename,
                     extracted_text |-> [kind |-> "error"],
                     vector_id |-> FALSE])

\* lines 126-134: the Document stored when the inner try went through;
\* without text the placeholder "Scanned/image PDF" stands in
PendingAfterExtraction(pending, request_id, attachment, extracted_text) ==
    Append(pending, [request_id |-> request_id,
                     filename |-> attachment.filename,
                     extracted_text |->
                        IF extracted_text # ""
                        THEN [kind |-> "text", text |-> extracted_text]
                        ELSE [kind |-> "scanned"],
                     vector_id |-> TRUE])

\* text_for_vector of a PDF without text (line 104): f"Document: {filename}"
FilenameText(filename) ==
    CASE filename = "passport.pdf" -> "Document: passport.pdf"
      [] filename = "transcript.pdf" -> "Document: transcript.pdf"
      [] filename = "enrolment.pdf" -> "Document: enrolment.pdf"
      [] filename = "photo.jpg" -> "Document: photo.jpg"
      [] OTHER -> "Document: "

\* lines 95, 114-122: vector_db.add_document is reached and returns
Indexed(attachment) ==
    /\ attachment.is_pdf
    /\ attachment.on_disk
    /\ attachment.extraction \in {"text", "empty"}

\* lines 77-161: one round of the attachment loop
ExtractAttachment(p) ==
    /\ pc[p] = "extract"
    /\ loc[p].idx <= Len(msg[p].attachments)
    /\ LET attachment == msg[p].attachments[loc[p].idx]
           extracted_text == IF attachment.extraction \in {"text", "index_raises"}
                             THEN attachment.text ELSE ""
           appended == Append(loc[p].documents_text,
                              IF extracted_text # "" THEN extracted_text
                              ELSE FilenameText(attachment.filename))
       IN  IF attachment.is_pdf /\ attachment.on_disk
           THEN CASE attachment.extraction = "raises" ->
                       loc' = [loc EXCEPT ![p].idx = @ + 1,
                                 ![p].pending = PendingAfterFailure(
                                     @, loc[p].request, attachment)]
                  [] attachment.extraction = "index_raises" ->
                       loc' = [loc EXCEPT ![p].idx = @ + 1,
                                 ![p].documents_text = appended,
                                 ![p].pending = PendingAfterFailure(
                                     @, loc[p].request, attachment)]
                  [] OTHER ->
                       loc' = [loc EXCEPT ![p].idx = @ + 1,
                                 ![p].documents_text = appended,
                                 ![p].pending = PendingAfterExtraction(
                                     @, loc[p].request, attachment, extracted_text)]
           ELSE loc' = [loc EXCEPT ![p].idx = @ + 1]
    /\ index' = IF Indexed(msg[p].attachments[loc[p].idx])
                THEN Append(index, [request_id |-> loc[p].request,
                                    filename |-> msg[p].attachments[loc[p].idx].filename])
                ELSE index
    /\ UNCHANGED <<now, msg, pc, students, requests, appointments, slots, sent, failures, ev, workers, driver, documents>>

\* lines 166-168: the loop is over, the Documents are committed, then
\* status processing
MarkProcessing(p) ==
    /\ pc[p] = "extract"
    /\ loc[p].idx > Len(msg[p].attachments)
    /\ documents' = documents \o loc[p].pending
    /\ requests' = [requests EXCEPT ![loc[p].request].status = StatusAfterExtraction]
    /\ loc' = [loc EXCEPT ![p].pending = <<>>, ![p].idx = 1]
    /\ pc' = [pc EXCEPT ![p] = "evaluate"]
    /\ UNCHANGED <<now, msg, students, appointments, slots, sent, failures, ev, workers, driver, index>>

\* lines 241-242: the error text is written only into an empty audit field
RecordError(request) ==
    [request EXCEPT !.llm_analysis =
        IF NoAnalysis(@) THEN [kind |-> "processing_error"] ELSE @]

\* lines 239-251: the handler, entered with a Request in locals.  Its own
\* commit (line 243) stands outside any try: either it completes and the
\* error result is returned, or it raises, nothing is written and the
\* exception leaves the task
HandleError(p) ==
    \/ /\ requests' = [requests EXCEPT ![loc[p].request] = RecordError(@)]
       /\ Return(p, "error")
    \/ /\ UNCHANGED requests
       /\ Return(p, "raised")

\* the verdict lost: nothing of it is stored on the Request
WithVerdictDropped(request, rag_result) == request

\* lines 177-181: the verdict stored on the Request
WithVerdict(request, rag_result) ==
    [request EXCEPT !.is_compliant = rag_result.is_compliant,
                    !.compliance_score = rag_result.compliance_score,
                    !.missing_documents = Str(rag_result.missing_documents),
                    !.required_documents = Str(rag_result.required_documents)]

\* the status advanced without the timestamp of line 197
WithCategorizationNoTimestamp(request, categorization) ==
    [request EXCEPT !.request_type = categorization.category,
                    !.llm_confidence = categorization.confidence,
                    !.llm_analysis = categorization.raw_response,
                    !.status = StatusAfterCategorization]

\* lines 185-198: the categorization, the status and the timestamp stored
\* on the Request in one commit
WithCategorization(request, categorization) ==
    [request EXCEPT !.request_type = categorization.category,
                    !.llm_confidence = categorization.confidence,
                    !.llm_analysis = categorization.raw_response,
                    !.status = StatusAfterCategorization,
                    !.processed_at = TRUE]

\* lines 170-181: compliance evaluation, or the evaluator raises
Evaluate(p) ==
    /\ pc[p] = "evaluate"
    /\ \/ \E analysis \in JudgmentResponses, guideline_texts \in RetrievedGuidelines :
            LET rag_result == compare_with_guidelines(msg[p].body,
                                                      loc[p].documents_text,
                                                      analysis, guideline_texts)
            IN  /\ requests' = [requests EXCEPT ![loc[p].request] =
                        WithVerdict(@, rag_result)]
                /\ loc' = [loc EXCEPT ![p].required = rag_result.required_documents]
                /\ pc' = [pc EXCEPT ![p] = "categorize"]
                /\ UNCHANGED failures
       \/ /\ failures < MaxFailures
          /\ failures' = failures + 1
          /\ HandleError(p)
    /\ UNCHANGED <<now, msg, students, appointments, slots, sent, ev, workers, driver, documents, index>>

\* lines 183-198 and, for a Request that is not compliant, the return of
\* lines 232-237
Categorize(p) ==
    /\ pc[p] = "categorize"
    /\ \E categorization \in
            {_parse_categorization(c) : c \in CategoryResponsesFor(msg[p].subject)}
            \cup {CategorizationFailed} :
          /\ categorization = CategorizationFailed => failures < MaxFailures
          /\ failures' = IF categorization = CategorizationFailed
                         THEN failures + 1 ELSE failures
          /\ requests' = [requests EXCEPT ![loc[p].request] =
                WithCategorization(@, categorization)]
    /\ IF ShouldSchedule(requests[loc[p].request])
       THEN /\ pc' = [pc EXCEPT ![p] = "schedule"]
            /\ UNCHANGED loc
       ELSE Return(p, "success")
    /\ UNCHANGED <<now, msg, students, appointments, slots, sent, ev, workers, driver, documents, index>>

\* the test of line 209 left out
HasAppointmentUnchecked(appointment) == TRUE

\* `if appointment:`
HasAppointment(appointment) == appointment # NULL

\* appointment_service lines 56-59: query the next slot; without a slot
\* schedule_appointment returns None and the run returns success with no
\* appointment (lines 209, 232-237)
ScheduleRead(p) ==
    /\ pc[p] = "schedule"
    /\ LET found == get_next_available_slot(now, slots)
       IN  IF found = {}
           THEN IF HasAppointment(NULL)
                THEN /\ pc' = [pc EXCEPT ![p] = "link"]
                     /\ loc' = [loc EXCEPT ![p].called = TRUE]
                ELSE /\ pc' = [pc EXCEPT ![p] = "done"]
                     /\ loc' = [loc EXCEPT ![p] = [LocInit EXCEPT
                                                     !.request = loc[p].request,
                                                     !.called = TRUE,
                                                     !.outcome = "success"]]
           ELSE \E slot \in found :
                /\ loc' = [loc EXCEPT ![p].called = TRUE, ![p].slot = slot,
                              ![p].bookings_read = slots[slot].current_bookings]
                /\ pc' = [pc EXCEPT ![p] = "book"]
    /\ UNCHANGED <<now, msg, students, requests, appointments, slots, sent, failures, ev, workers, driver, documents, index>>

\* appointment_service lines 25-34: the query raises (the connection is
\* lost), nothing is booked and the handler of process_email_task runs
ScheduleRaise(p) ==
    /\ pc[p] = "schedule"
    /\ failures < MaxFailures
    /\ failures' = failures + 1
    /\ HandleError(p)
    /\ UNCHANGED <<now, msg, students, appointments, slots, sent, ev, workers, driver, documents, index>>

\* the flag left as stored, whatever the new count
AvailableAfterBookingUnchanged(slot, current_bookings) == slot.is_available

\* appointment_service lines 75-76: the flag is cleared when the new count
\* reaches the capacity, and otherwise keeps its stored value
AvailableAfterBooking(slot, current_bookings) ==
    IF current_bookings >= slot.max_capacity THEN FALSE ELSE slot.is_available

\* appointment_service lines 61-83: the increment is computed from the values
\* read and written with the Appointment in one commit
ScheduleCommit(p) ==
    /\ pc[p] = "book"
    /\ LET slot == loc[p].slot
           current_bookings == loc[p].bookings_read + 1
       IN  /\ slots' = [slots EXCEPT ![slot] =
                  [@ EXCEPT !.current_bookings = current_bookings,
                            !.is_available =
                                AvailableAfterBooking(slots[slot], current_bookings)]]
           /\ appointments' = Append(appointments,
                  NewAppointment(loc[p].student, loc[p].request, slot, loc[p].required))
    /\ loc' = [loc EXCEPT ![p].appointment = Len(appointments) + 1,
                          ![p].bookings_read = 0]
    /\ pc' = [pc EXCEPT ![p] = "link"]
    /\ UNCHANGED <<now, msg, students, requests, sent, failures, ev, workers, driver, documents, index>>

\* lines 209-212: the link back onto the Request
LinkAppointment(p) ==
    /\ pc[p] = "link"
    /\ requests' = [requests EXCEPT ![loc[p].request] =
            [@ EXCEPT !.appointment_id = loc[p].appointment,
                      !.status = StatusAfterAllocation]]
    /\ pc' = [pc EXCEPT ![p] = "notify"]
    /\ UNCHANGED <<now, msg, loc, students, appointments, slots, sent, failures, ev, workers, driver, documents, index>>

\* the message handed to the server twice
send_appointment_confirmation_twice(outbox, request_id) ==
    outbox (+) SetToBag({request_id}) (+) SetToBag({request_id})

\* email_notification_service lines 150-162: one message for the Request is
\* handed to the SMTP server
send_appointment_confirmation(outbox, request_id) ==
    outbox (+) SetToBag({request_id})

\* lines 214-237: the confirmation is sent, or sending raises and is logged
Notify(p) ==
    /\ pc[p] = "notify"
    /\ \/ /\ sent' = send_appointment_confirmation(sent, loc[p].request)
          /\ UNCHANGED failures
       \/ /\ failures < MaxFailures
          /\ failures' = failures + 1
          /\ UNCHANGED sent
    /\ Return(p, "success")
    /\ UNCHANGED <<now, msg, students, requests, appointments, slots, ev, workers, driver, documents, index>>

\* the increment of line 74 written although the commit failed
SlotsAfterFailedCommitKept(p) ==
    IF pc[p] = "book"
    THEN [slots EXCEPT ![loc[p].slot].current_bookings = loc[p].bookings_read + 1]
    ELSE slots

\* a commit that raises rolls its transaction back: the slot keeps the
\* values stored before lines 74-76
SlotsAfterFailedCommit(p) == slots

\* appointment_service line 80 or email_worker line 212: the commit raises.
\* The session discards what the stage changed in memory (the increment and
\* the Appointment, or the link and the status), then the handler runs
CommitRaise(p) ==
    /\ pc[p] \in {"book", "link"}
    /\ failures < MaxFailures
    /\ failures' = failures + 1
    /\ slots' = SlotsAfterFailedCommit(p)
    /\ HandleError(p)
    /\ UNCHANGED <<now, msg, students, appointments, sent, ev, workers, driver, documents, index>>

\* AppointmentService.schedule_appointment: the query, then the commit
schedule_appointment(p) ==
    \/ ScheduleRead(p)
    \/ ScheduleRaise(p)
    \/ ScheduleCommit(p)

process_email_task(p) ==
    \/ Gate(p)
    \/ StudentLookup(p)
    \/ StudentInsert(p)
    \/ CreateRequest(p)
    \/ ExtractAttachment(p)
    \/ MarkProcessing(p)
    \/ Evaluate(p)
    \/ Categorize(p)
    \/ schedule_appointment(p)
    \/ CommitRaise(p)
    \/ LinkAppointment(p)
    \/ Notify(p)

Next ==
    \/ Tick
    \/ \E p \in Runs : process_email_task(p)

Spec == Init /\ [][Next]_vars

\* ------------------------------------------------ one worker, solo pool
\* The deployment of celery_app: a single worker process, which takes the
\* next task when the task before has returned.
InitSolo ==
    /\ ev = EvIdle
    /\ now = 0
    /\ msg \in Deliveries
    /\ pc = [p \in Runs |-> "gate"]
    /\ loc = [p \in Runs |-> LocInit]
    /\ students = <<>>
    /\ requests = <<>>
    /\ appointments = <<>>
    /\ slots = create_available_slots(TicksPerDay, NumDays, SlotsPerDay)
    /\ sent = EmptyBag
    /\ failures = 0
    /\ workers = 1
    /\ driver = DriverIdle
    /\ documents = <<>>
    /\ index = <<>>

SpecSolo == InitSolo /\ [][Next]_vars

\* ------------------------------------------------- categorizer scenarios
\* a message to which the categorizer may answer without a JSON object
QuestionMessage == [Messages[1] EXCEPT !.subject = "Question"]

\* the runs of one worker, each delivered that message
InitParse ==
    /\ ev = EvIdle
    /\ now = 0
    /\ msg = [p \in Runs |-> QuestionMessage]
    /\ pc = [p \in Runs |-> "gate"]
    /\ loc = [p \in Runs |-> LocInit]
    /\ students = <<>>
    /\ requests = <<>>
    /\ appointments = <<>>
    /\ slots = create_available_slots(TicksPerDay, NumDays, SlotsPerDay)
    /\ sent = EmptyBag
    /\ failures = 0
    /\ workers = 1
    /\ driver = DriverIdle
    /\ documents = <<>>
    /\ index = <<>>

SpecParse == InitParse /\ [][Next]_vars

\* ------------------------------------------------- attachment scenarios
\* Scenario E and its variations: a message without passport keyword in its
\* body carrying three PDFs and a picture.  Each PDF either goes through or
\* makes the inner try raise, so every subset of the three raises in some
\* message; between them the files show the four ways the try can end
RaisingSubsets == SUBSET {"passport.pdf", "transcript.pdf", "enrolment.pdf"}

AttachmentMessages ==
    {[sender |-> "bob@uni.edu", subject |-> "Residence permit extension",
      body |-> "Please extend my permit",
      attachments |->
         <<Attachment("passport.pdf", TRUE, TRUE,
                      IF "passport.pdf" \in raising THEN "raises" ELSE "text",
                      "PASSPORT NO. X123"),
           Attachment("transcript.pdf", TRUE, TRUE,
                      IF "transcript.pdf" \in raising THEN "index_raises" ELSE "text",
                      "Transcript of records"),
           Attachment("enrolment.pdf", TRUE, TRUE,
                      IF "enrolment.pdf" \in raising THEN "raises" ELSE "empty",
                      "Certificate of enrolment"),
           Attachment("photo.jpg", FALSE, TRUE, "text", "")>>] :
        raising \in RaisingSubsets}

\* the runs of one worker, each delivered the same message
InitAttach ==
    /\ ev = EvIdle
    /\ now = 0
    /\ \E m \in AttachmentMessages : msg = [p \in Runs |-> m]
    /\ pc = [p \in Runs |-> "gate"]
    /\ loc = [p \in Runs |-> LocInit]
    /\ students = <<>>
    /\ requests = <<>>
    /\ appointments = <<>>
    /\ slots = create_available_slots(TicksPerDay, NumDays, SlotsPerDay)
    /\ sent = EmptyBag
    /\ failures = 0
    /\ workers = 1
    /\ driver = DriverIdle
    /\ documents = <<>>
    /\ index = <<>>

SpecAttach == InitAttach /\ [][Next]_vars

\* ------------------------------------------------------------ the driver
\* process_all_emails_task (lines 257-283): the fetched batch is walked once;
\* message i is handed to the broker with .delay (line 276) and then marked
\* read (line 278).  The loop has no handler: what .delay or mark_as_read
\* raises leaves the task.  Task k of the call is run k of the model.
InitDriver ==
    /\ ev = EvIdle
    /\ now = 0
    /\ msg = [p \in Runs |-> NoMessage]
    /\ pc = [p \in Runs |-> "gate"]
    /\ loc = [p \in Runs |-> LocInit]
    /\ students = <<>>
    /\ requests = <<>>
    /\ appointments = <<>>
    /\ slots = create_available_slots(TicksPerDay, NumDays, SlotsPerDay)
    /\ sent = EmptyBag
    /\ failures = 0
    /\ workers = NumRuns
    /\ documents = <<>>
    /\ index = <<>>
    /\ \E emails \in Deliveries :
          driver = [stage |-> "delay", emails |-> emails, i |-> 1,
                    results |-> <<>>, read |-> {}]

\* line 276: process_email_task.delay(serializable_data), or the broker raises
DriverDelay ==
    /\ driver.stage = "delay"
    /\ \/ /\ msg' = [msg EXCEPT ![Len(driver.results) + 1] = driver.emails[driver.i]]
          /\ driver' = [driver EXCEPT !.results = Append(@, driver.i),
                                      !.stage = "mark_as_read"]
          /\ UNCHANGED failures
       \/ /\ failures < MaxFailures
          /\ failures' = failures + 1
          /\ driver' = [driver EXCEPT !.stage = "raised"]
          /\ UNCHANGED msg
    /\ UNCHANGED <<now, pc, loc, students, requests, appointments, slots, sent,
                   ev, workers, documents, index>>

\* line 278 and email_service lines 308-314: mark_as_read, or IMAP raises
DriverMarkAsRead ==
    /\ driver.stage = "mark_as_read"
    /\ \/ /\ driver' = [driver EXCEPT
                          !.read = @ \cup {driver.i},
                          !.i = @ + 1,
                          !.stage = IF driver.i < Len(driver.emails)
                                    THEN "delay" ELSE "returned"]
          /\ UNCHANGED failures
       \/ /\ failures < MaxFailures
          /\ failures' = failures + 1
          /\ driver' = [driver EXCEPT !.stage = "raised"]
    /\ UNCHANGED <<now, msg, pc, loc, students, requests, appointments, slots,
                   sent, ev, workers, documents, index>>

process_all_emails_task ==
    \/ DriverDelay
    \/ DriverMarkAsRead

NextDriver ==
    \/ process_all_emails_task
    \/ Next

SpecDriver == InitDriver /\ [][NextDriver]_vars

\* ------------------------------------- the allocator under concurrent calls
\* Every run stands at the call of schedule_appointment (line 203): the
\* deliveries of the first message passed the gate together, and each was
\* evaluated compliant and categorized.
AllocVerdict ==
    compare_with_guidelines(Messages[1].body,
                            <<Messages[1].attachments[1].text>>,
                            CHOOSE a \in JudgmentResponses : a.kind = "json",
                            <<PassportGuideline>>)

AllocCategorization ==
    _parse_categorization(CHOOSE c \in CategoryResponses : c.kind = "json")

\* the Request row after lines 61-69, 166-168, 177-181 and 185-198
CategorizedRequest(student_id, email_data, t, rag_result, categorization) ==
    [NewRequest(student_id, email_data.subject, email_data.body, t) EXCEPT
        !.status = StatusAfterCategorization,
        !.is_compliant = rag_result.is_compliant,
        !.compliance_score = rag_result.compliance_score,
        !.missing_documents = Str(rag_result.missing_documents),
        !.required_documents = Str(rag_result.required_documents),
        !.request_type = categorization.category,
        !.llm_confidence = categorization.confidence,
        !.llm_analysis = categorization.raw_response,
        !.processed_at = TRUE]

\* the state in which every run has reached the allocation call, over a given
\* slot table
AllocStart(slot_table) ==
    /\ ev = EvIdle
    /\ now = 0
    /\ msg = [p \in Runs |-> Messages[1]]
    /\ pc = [p \in Runs |-> "schedule"]
    /\ loc = [p \in Runs |->
                [LocInit EXCEPT !.student = 1, !.request = p,
                                !.documents_text = <<Messages[1].attachments[1].text>>,
                                !.required = AllocVerdict.required_documents]]
    /\ students = <<EmailAddress(Messages[1].sender)>>
    /\ requests = [p \in Runs |->
                     CategorizedRequest(1, Messages[1], 0, AllocVerdict,
                                        AllocCategorization)]
    /\ appointments = <<>>
    /\ slots = slot_table
    /\ sent = EmptyBag
    /\ failures = 0
    /\ workers = NumRuns
    /\ driver = DriverIdle
    /\ documents = [p \in Runs |->
                      PendingAfterExtraction(<<>>, p, Messages[1].attachments[1],
                                             Messages[1].attachments[1].text)[1]]
    /\ index = [p \in Runs |->
                  [request_id |-> p, filename |-> Messages[1].attachments[1].filename]]

InitAlloc == AllocStart(create_available_slots(TicksPerDay, NumDays, SlotsPerDay))

\* create_slots.py asks for several slots per day: the slots of one day
\* share slot_date
InitTies == AllocStart(create_available_slots(TicksPerDay, NumDays, SlotsPerDay + 1))

NextAlloc ==
    \/ Tick
    \/ \E p \in Runs : \/ schedule_appointment(p)
                        \/ CommitRaise(p)
                        \/ LinkAppointment(p)
                        \/ Notify(p)

SpecAlloc == InitAlloc /\ [][NextAlloc]_vars

SpecTies == InitTies /\ [][NextAlloc]_vars

\* ------------------------------------------------------- gate scenarios
\* An earlier cycle has processed the second message at time 0: its judgment
\* was the unparsable response, its Request ended categorized and not
\* compliant.  The runs of one worker then take their deliveries.
HistoryVerdict ==
    compare_with_guidelines(Messages[2].body, <<>>,
                            CHOOSE a \in JudgmentResponses : a.kind = "text",
                            <<PassportGuideline>>)

InitGate ==
    /\ ev = EvIdle
    /\ now = 0
    /\ msg \in Deliveries
    /\ pc = [p \in Runs |-> "gate"]
    /\ loc = [p \in Runs |-> LocInit]
    /\ students = <<EmailAddress(Messages[2].sender)>>
    /\ requests = <<CategorizedRequest(1, Messages[2], 0, HistoryVerdict,
                                       AllocCategorization)>>
    /\ appointments = <<>>
    /\ slots = create_available_slots(TicksPerDay, NumDays, SlotsPerDay)
    /\ sent = EmptyBag
    /\ failures = 0
    /\ workers = 1
    /\ driver = DriverIdle
    /\ documents = <<>>
    /\ index = <<>>

SpecGate == InitGate /\ [][Next]_vars

\* ------------------------------------------- the evaluator on its own
\* The inputs of one call of compare_with_guidelines: the submission, the
\* judgment's response and the retrieved guidelines.
DocLists == {<<>>, <<"Passport">>, <<"Photo">>, <<"Photo", "Passport">>}

JsonFlags == {[type |-> "bool", v |-> "true"], [type |-> "bool", v |-> "false"],
              [type |-> "str", v |-> "Yes"], [type |-> "num", v |-> "0"]}

JsonScores == {0, 80, 100}

JsonAnalyses ==
    LET core == [is_compliant : JsonFlags, present_documents : DocLists,
                 required_documents : DocLists]
        scored == core \cup {c @@ [compliance_score |-> n] :
                                c \in core, n \in JsonScores}
        listed == scored \cup {c @@ [missing_documents |-> m] :
                                  c \in scored, m \in DocLists}
    IN  {[kind |-> "json", json |-> j] : j \in listed}

\* JSON objects whose present_documents is null
NullListAnalyses ==
    {[kind |-> "json",
      json |-> [is_compliant |-> f, present_documents |-> None_,
                required_documents |-> r]] : f \in JsonFlags, r \in DocLists}

TextFragments == {"Not compliant", "is compliant", "incomplete", "missing",
                  "Compliant", "is_compliant: true", "is_compliant: false"}

ScoreFragments == {"score: 20", "compliance_score: 80", "score: 150", "45%",
                   "\"compliance_score\": 70"}

TextAnalyses ==
    {[kind |-> "text", text |-> t] : t \in SUBSET TextFragments}
    \cup {[kind |-> "text", text |-> t \cup {n}] :
            t \in SUBSET TextFragments, n \in ScoreFragments}

Analyses == JsonAnalyses \cup NullListAnalyses \cup TextAnalyses

GuidelineTexts ==
    {<<>>,
     <<PassportGuideline>>,
     <<<<"Required documents:", "- Photo">>>>,
     <<<<"Bring your passport - no copies">>>>,
     <<<<"Passport is optional">>>>,
     <<<<"- Passport", "Required documents:">>>>,
     <<<<"Required documents:", "- Passport">>>>,
     <<<<"Required documents:", "- Photo", "Passport not needed">>>>,
     <<<<"Required documents:", "- Photo">>, PassportGuideline>>}

Submissions ==
    {[student_text |-> "Attached: passport copy", student_documents |-> <<>>],
     [student_text |-> "Please extend my permit", student_documents |-> <<>>],
     [student_text |-> "Please extend my permit",
      student_documents |-> <<"PASSPORT NO. X123">>],
     [student_text |-> "Please extend my permit",
      student_documents |-> <<"My Travel Document is attached">>]}

InitEval ==
    /\ ev \in [stage : {"input"}, submission : Submissions, analysis : Analyses,
                guideline_texts : GuidelineTexts,
                compliance_data : {EvIdle}, verdict : {EvIdle}]
    /\ now = 0
    /\ msg = [p \in Runs |-> Messages[1]]
    /\ pc = [p \in Runs |-> "done"]
    /\ loc = [p \in Runs |-> LocInit]
    /\ students = <<>>
    /\ requests = <<>>
    /\ appointments = <<>>
    /\ slots = create_available_slots(TicksPerDay, NumDays, SlotsPerDay)
    /\ sent = EmptyBag
    /\ failures = 0
    /\ workers = 1
    /\ driver = DriverIdle
    /\ documents = <<>>
    /\ index = <<>>

\* rag_service line 155: the response is parsed
ParseAnalysis ==
    /\ ev.stage = "input"
    /\ ev' = [ev EXCEPT !.stage = "parsed",
                        !.compliance_data = _parse_compliance_analysis(ev.analysis)]
    /\ UNCHANGED <<now, msg, pc, loc, students, requests, appointments, slots,
                   sent, failures, workers, driver, documents, index>>

\* rag_service lines 157-211: the override and the returned verdict, or the
\* exception that leaves compare_with_guidelines
ReturnVerdict ==
    /\ ev.stage = "parsed"
    /\ ev' = IF compare_raises(ev.submission.student_text,
                               ev.submission.student_documents,
                               ev.analysis, ev.guideline_texts)
             THEN [ev EXCEPT !.stage = "raised"]
             ELSE [ev EXCEPT !.stage = "returned",
                             !.verdict = compare_with_guidelines(
                                 ev.submission.student_text,
                                 ev.submission.student_documents,
                                 ev.analysis, ev.guideline_texts)]
    /\ UNCHANGED <<now, msg, pc, loc, students, requests, appointments, slots,
                   sent, failures, workers, driver, documents, index>>

NextEval ==
    \/ ParseAnalysis
    \/ ReturnVerdict

SpecEval == InitEval /\ [][NextEval]_vars
\* ------------------------------------------------------------------ claims
AppointmentsOfSlot(s) == {a \in DOMAIN appointments : appointments[a].slot = s}
AppointmentsOfRequest(r) == {a \in DOMAIN appointments : appointments[a].request_id = r}
RequestsWithSubject(subject) ==
    {r \in DOMAIN requests : requests[r].email_subject = subject}
Min(a, b) == IF a <= b THEN a ELSE b
Abs(a) == IF a < 0 THEN 0 - a ELSE a

\* C1: no double-booking -- two runs that call schedule_appointment against
\* a slot with max_capacity = 1 never both obtain an Appointment for it.
ClaimC1 ==
    \A s \in SlotIds :
        slots[s].max_capacity = 1 => Cardinality(AppointmentsOfSlot(s)) <= 1

\* C2: in every reachable state every slot has
\* current_bookings <= max_capacity.
InvC2 == \A s \in SlotIds : slots[s].current_bookings <= slots[s].max_capacity

\* two commits of schedule_appointment have written the same slot
WitnessC2 ==
    \E s \in SlotIds :
        /\ Cardinality(AppointmentsOfSlot(s)) >= 2
        /\ slots[s].current_bookings = slots[s].max_capacity

\* C3: with a pool of one future slot of capacity c, once all n attempts have
\* finished the number of Appointments created is min(n, c).
ClaimC3 ==
    (/\ \A p \in Runs : pc[p] = "done"
     /\ Cardinality(SlotIds) = 1
     /\ \A s \in SlotIds : slots[s].slot_date > now)
    => \A s \in SlotIds :
          Len(appointments) =
              Min(Cardinality({p \in Runs : loc[p].called}), slots[s].max_capacity)

\* C4: every Request has at most one Appointment whose request_id refers to
\* it, redeliveries of the same message included.
InvC4 == \A r \in DOMAIN requests : Cardinality(AppointmentsOfRequest(r)) <= 1

\* two deliveries of one message both ended with an Appointment
WitnessC4 ==
    \E p, q \in Runs :
        /\ p # q
        /\ msg[p] = msg[q]
        /\ loc[p].appointment # NULL
        /\ loc[q].appointment # NULL

\* C5: a second delivery of a message that passes the gate after the first
\* delivery has finished, less than 24 hours after the creation of the first
\* delivery's Request (the only Request with that subject), is skipped as a
\* duplicate and creates no Request.
InvC5 ==
    [][\A p, q \in Runs :
          (/\ p # q
           /\ msg[p] = msg[q]
           /\ pc[p] = "gate" /\ pc'[p] # "gate"
           /\ pc[q] = "done"
           /\ loc[q].request # NULL
           /\ RequestsWithSubject(msg[p].subject) = {loc[q].request}
           /\ (now - requests[loc[q].request].created_at) * SecondsPerTick
                  < 24 * 3600)
          => /\ pc'[p] = "done"
             /\ loc'[p].outcome = "skipped"
             /\ loc'[p].request = NULL
             /\ requests' = requests]_vars

\* the second delivery was skipped and the first one's Request is the only one
WitnessC5 ==
    \E p, q \in Runs :
        /\ p # q
        /\ msg[p] = msg[q]
        /\ pc[q] = "done" /\ loc[q].request # NULL
        /\ pc[p] = "done" /\ loc[p].outcome = "skipped"
        /\ RequestsWithSubject(msg[p].subject) = {loc[q].request}

\* C6: of two runs for the same message that execute at the same time, at
\* most one passes the gate and creates a Request (two Requests of such runs
\* are at least 24 hours apart).
ClaimC6 ==
    \A p, q \in Runs :
        (/\ p # q
         /\ msg[p] = msg[q]
         /\ InFlight(p) /\ InFlight(q)
         /\ loc[p].request # NULL /\ loc[q].request # NULL)
        => Abs(requests[loc[p].request].created_at
               - requests[loc[q].request].created_at) * SecondsPerTick >= 24 * 3600

\* C7: the status of a Request starts at pending and every change moves it
\* one step along pending, processing, categorized, appointment_scheduled.
StatusSteps == {<<"pending", "processing">>, <<"processing", "categorized">>,
                <<"categorized", "appointment_scheduled">>}

InvC7 ==
    [][\A r \in DOMAIN requests' :
          IF r \in DOMAIN requests
          THEN \/ requests'[r].status = requests[r].status
               \/ <<requests[r].status, requests'[r].status>> \in StatusSteps
          ELSE requests'[r].status = "pending"]_vars

\* a Request is scheduled and a later run has created another Request
WitnessC7 ==
    \E r1, r2 \in DOMAIN requests :
        /\ r1 < r2
        /\ requests[r1].status = "appointment_scheduled"
        /\ requests[r2].status = "categorized"

\* C8: every verdict returned by compare_with_guidelines has is_compliant
\* true exactly when missing_documents is empty.
ClaimC8 ==
    ev.stage = "returned"
    => (ev.verdict.is_compliant <=> ev.verdict.missing_documents = <<>>)

\* C9: every verdict returned by compare_with_guidelines with is_compliant
\* true has compliance_score 100.
ClaimC9 ==
    (ev.stage = "returned" /\ ev.verdict.is_compliant)
    => ev.verdict.compliance_score = 100

\* C10: a scheduled Request is compliant and linked to its Appointment; the
\* allocator is entered, an Appointment created and a slot's bookings changed
\* only by a run whose Request is compliant.
InvC10 ==
    /\ [](/\ \A r \in DOMAIN requests :
               requests[r].status = "appointment_scheduled"
               => requests[r].is_compliant /\ requests[r].appointment_id # NULL
          /\ \A p \in Runs :
               (loc[p].called \/ pc[p] \in {"schedule", "book"})
               => requests[loc[p].request].is_compliant
          /\ \A a \in DOMAIN appointments :
               /\ appointments[a].request_id \in DOMAIN requests
               /\ requests[appointments[a].request_id].is_compliant)
    /\ [][\A s \in SlotIds :
            slots'[s].current_bookings # slots[s].current_bookings
            => \E p \in Runs :
                  /\ pc[p] = "book" /\ pc'[p] = "link"
                  /\ requests[loc[p].request].is_compliant]_vars

\* one Request was scheduled and a Request that is not compliant ended
\* categorized
WitnessC10 ==
    /\ \E r \in DOMAIN requests : requests[r].status = "appointment_scheduled"
    /\ \E p \in Runs :
          /\ pc[p] = "done" /\ loc[p].outcome = "success"
          /\ ~requests[loc[p].request].is_compliant
          /\ requests[loc[p].request].status = "categorized"
          /\ ~loc[p].called

\* C11: when schedule_appointment is called while every future slot is
\* exhausted, the call returns without an Appointment and changes no slot,
\* no Appointment and no Request, and the run ends with a success result, its
\* Request categorized, compliant and without appointment_id.
FutureSlotsExhausted ==
    \A s \in SlotIds :
        slots[s].slot_date > now => slots[s].current_bookings = slots[s].max_capacity

EndedWithoutAppointment(p) ==
    /\ pc[p] = "done"
    /\ loc[p].outcome = "success"
    /\ loc[p].called
    /\ loc[p].appointment = NULL

InvC11 ==
    /\ [](\A p \in Runs :
            EndedWithoutAppointment(p)
            => /\ requests[loc[p].request].status = "categorized"
               /\ requests[loc[p].request].is_compliant
               /\ requests[loc[p].request].appointment_id = NULL
               /\ AppointmentsOfRequest(loc[p].request) = {})
    /\ [][\A p \in Runs :
            (/\ pc[p] = "schedule" /\ pc'[p] # "schedule"
             /\ failures' = failures
             /\ FutureSlotsExhausted)
            => /\ EndedWithoutAppointment(p)'
               /\ appointments' = appointments
               /\ slots' = slots
               /\ requests' = requests
               /\ sent' = sent]_vars

\* a run ended without an Appointment while a future slot was fully booked
WitnessC11 ==
    \E p \in Runs :
        /\ EndedWithoutAppointment(p)
        /\ \E s \in SlotIds :
              /\ slots[s].slot_date > now
              /\ slots[s].current_bookings = slots[s].max_capacity

\* C12: when a call of process_all_emails_task has ended, every message of
\* its batch other than the one it was handling has been dispatched -- a
\* failure on one message keeps no other message from its pipeline run.
ClaimC12 ==
    driver.stage \in {"returned", "raised"}
    => \A j \in DOMAIN driver.emails :
          j # driver.i => \E k \in DOMAIN driver.results : driver.results[k] = j
\* C13: whenever a stage raised after the Request row existed and the run
\* returned its error result, the audit field llm_analysis of the Request
\* holds the error text.
ClaimC13 ==
    \A p \in Runs :
        (pc[p] = "done" /\ loc[p].outcome = "error" /\ loc[p].request # NULL)
        => requests[loc[p].request].llm_analysis.kind = "processing_error"

\* C18: every run that has terminated returned one of the outcomes success,
\* skipped and error; no exception left the task.
ClaimC18 ==
    \A p \in Runs :
        pc[p] = "done" => loc[p].outcome \in {"success", "skipped", "error"}

\* C14: in every state a run can be stopped in, the persisted status of its
\* Request is the one of the last commit its position has passed, a Request
\* categorized or scheduled has its compliance fields, category fields and
\* processed_at persisted, a Request scheduled has its Appointment, and a
\* Request not yet categorized has none of the later fields.
StageOf(position) ==
    CASE position = "extract" -> "pending"
      [] position \in {"evaluate", "categorize"} -> "processing"
      [] position \in {"schedule", "book", "link"} -> "categorized"
      [] position = "notify" -> "appointment_scheduled"

VerdictPersisted(request) ==
    /\ request.missing_documents.repr # "null"
    /\ request.required_documents.repr # "null"

CategoryPersisted(request) ==
    /\ request.request_type # "null"
    /\ request.llm_analysis.kind # "none"
    /\ request.processed_at

InvC14 ==
    /\ \A p \in Runs :
          pc[p] \in {"extract", "evaluate", "categorize", "schedule", "book",
                     "link", "notify"}
          => requests[loc[p].request].status = StageOf(pc[p])
    /\ \A r \in DOMAIN requests :
          /\ requests[r].status \in {"categorized", "appointment_scheduled"}
             => VerdictPersisted(requests[r]) /\ CategoryPersisted(requests[r])
          /\ requests[r].status \in {"pending", "processing"}
             => /\ requests[r].request_type = "null"
                /\ ~requests[r].processed_at
                /\ requests[r].appointment_id = NULL
          /\ requests[r].status = "pending" => ~VerdictPersisted(requests[r])
          /\ requests[r].status = "appointment_scheduled"
             <=> requests[r].appointment_id # NULL
          /\ requests[r].appointment_id # NULL
             => /\ requests[r].appointment_id \in DOMAIN appointments
                /\ appointments[requests[r].appointment_id].request_id = r

\* a run stands between the commit of categorization and the allocation,
\* and another Request was left processing by a run that ended in error
WitnessC14 ==
    /\ \E p \in Runs :
          /\ pc[p] \in {"schedule", "book"}
          /\ requests[loc[p].request].status = "categorized"
    /\ \E q \in Runs :
          /\ pc[q] = "done" /\ loc[q].outcome \in {"error", "raised"}
          /\ loc[q].request # NULL
          /\ requests[loc[q].request].status = "processing"

\* C15: within a run the evaluation step comes before the categorization
\* step and both before the allocation: categorization starts only from a
\* Request whose verdict is committed, and schedule_appointment is entered
\* only for a Request whose verdict and categorization are committed.
InvC15 ==
    [][\A p \in Runs :
         /\ (pc[p] # "categorize" /\ pc'[p] = "categorize")
            => /\ pc[p] = "evaluate"
               /\ VerdictPersisted(requests'[loc'[p].request])
               /\ requests'[loc'[p].request].status = "processing"
         /\ (pc[p] = "categorize" /\ pc'[p] # "categorize")
            => VerdictPersisted(requests[loc[p].request])
         /\ (pc[p] # "schedule" /\ pc'[p] = "schedule")
            => /\ pc[p] = "categorize"
               /\ VerdictPersisted(requests'[loc'[p].request])
               /\ CategoryPersisted(requests'[loc'[p].request])
               /\ requests'[loc'[p].request].status = "categorized"
         /\ (pc[p] = "schedule" /\ pc'[p] # "schedule")
            => /\ VerdictPersisted(requests[loc[p].request])
               /\ CategoryPersisted(requests[loc[p].request])
               /\ requests[loc[p].request].status = "categorized"]_vars

\* schedule_appointment was entered by a run whose Request holds the verdict
\* and the categorization
WitnessC15 ==
    \E p \in Runs :
        /\ loc[p].called
        /\ VerdictPersisted(requests[loc[p].request])
        /\ CategoryPersisted(requests[loc[p].request])

\* C16: when categorize_request raises, the step still commits the Request
\* with category other, confidence 0, status categorized (from processing)
\* and processed_at, and the run goes on: to schedule_appointment when the
\* Request is compliant, to the success result otherwise.
CategorizationRaised(p) ==
    /\ pc[p] = "categorize"
    /\ pc'[p] # "categorize"
    /\ failures' # failures

InvC16 ==
    [][\A p \in Runs :
         CategorizationRaised(p)
         => /\ requests[loc[p].request].status = "processing"
            /\ requests'[loc[p].request].status = "categorized"
            /\ requests'[loc[p].request].request_type = "other"
            /\ requests'[loc[p].request].llm_confidence = 0
            /\ requests'[loc[p].request].processed_at
            /\ requests'[loc[p].request].is_compliant
                  = requests[loc[p].request].is_compliant
            /\ IF requests[loc[p].request].is_compliant
               THEN pc'[p] = "schedule"
               ELSE pc'[p] = "done" /\ loc'[p].outcome = "success"]_vars

\* a compliant Request whose categorization raised received its
\* Appointment
WitnessC16 ==
    \E r \in DOMAIN requests :
        /\ requests[r].llm_analysis.kind = "llm_error"
        /\ requests[r].is_compliant
        /\ requests[r].status = "appointment_scheduled"

\* C17: for every subset of a message's PDFs whose extraction raises, once
\* the loop is committed each raising PDF has exactly one Document row with
\* the error placeholder and no vector id, every other PDF has its row with
\* its text (or the scanned placeholder) and its text in documents_text, the
\* loop itself never ends the run, and a run that met no other failure ends
\* with the success or the skipped result, its Request at least categorized.
Raises(attachment) ==
    /\ attachment.is_pdf
    /\ attachment.on_disk
    /\ attachment.extraction \in {"raises", "index_raises"}

DocumentsOf(r, filename) ==
    {d \in DOMAIN documents :
        documents[d].request_id = r /\ documents[d].filename = filename}

StoredAsExtracted(p, attachment) ==
    LET rows == DocumentsOf(loc[p].request, attachment.filename)
    IN  IF attachment.is_pdf /\ attachment.on_disk
        THEN /\ Cardinality(rows) = 1
             /\ \A d \in rows :
                   CASE Raises(attachment) ->
                          /\ documents[d].extracted_text.kind = "error"
                          /\ ~documents[d].vector_id
                     [] attachment.extraction = "text" ->
                          /\ documents[d].extracted_text
                                = [kind |-> "text", text |-> attachment.text]
                          /\ documents[d].vector_id
                     [] OTHER ->
                          /\ documents[d].extracted_text.kind = "scanned"
                          /\ documents[d].vector_id
        ELSE rows = {}

InvC17 ==
    /\ [](\A p \in Runs :
            /\ (loc[p].request # NULL /\ requests[loc[p].request].status # "pending")
               => \A i \in DOMAIN msg[p].attachments :
                     StoredAsExtracted(p, msg[p].attachments[i])
            /\ pc[p] \in {"evaluate", "categorize"}
               => \A i \in DOMAIN msg[p].attachments :
                     (/\ msg[p].attachments[i].is_pdf
                      /\ msg[p].attachments[i].on_disk
                      /\ msg[p].attachments[i].extraction = "text")
                     => \E k \in DOMAIN loc[p].documents_text :
                           loc[p].documents_text[k] = msg[p].attachments[i].text
            /\ (pc[p] = "done" /\ failures = 0)
               => /\ loc[p].outcome \in {"success", "skipped"}
                  /\ loc[p].outcome = "success"
                     => requests[loc[p].request].status
                           \in {"categorized", "appointment_scheduled"})
    /\ [][\A p \in Runs :
            pc[p] = "extract"
            => \/ pc'[p] = "extract"
               \/ /\ pc'[p] = "evaluate"
                  /\ requests'[loc[p].request].status = "processing"]_vars

\* Scenario E: exactly one of the three PDFs raised, its Document holds the
\* error placeholder, and the run ended in success with its Request
\* categorized or scheduled
WitnessC17 ==
    \E p \in Runs :
        /\ pc[p] = "done" /\ loc[p].outcome = "success"
        /\ requests[loc[p].request].status \in {"categorized", "appointment_scheduled"}
        /\ Cardinality({i \in DOMAIN msg[p].attachments :
                           Raises(msg[p].attachments[i])}) = 1
        /\ \E d \in DOMAIN documents :
              /\ documents[d].request_id = loc[p].request
              /\ documents[d].extracted_text.kind = "error"
        /\ Cardinality({d \in DOMAIN documents :
                           documents[d].request_id = loc[p].request}) = 3

\* C19: when the retrieved guideline lists only passport and neither the
\* submission text nor a document text holds a passport keyword, the verdict
\* has missing_documents = [passport], is_compliant false and
\* compliance_score 0, whatever the judgment answered.
\* every passport keyword holds the word passport, but for travel document
HasPassportKeyword(submission) ==
    \E keyword \in {"passport", "travel document"} :
        Occurs(keyword,
               LowerText({submission.student_text}
                         \cup {submission.student_documents[i] :
                                 i \in DOMAIN submission.student_documents}))

ClaimC19 ==
    (/\ ev.stage = "returned"
     /\ ev.guideline_texts = <<PassportGuideline>>
     /\ ~HasPassportKeyword(ev.submission))
    => /\ ev.verdict.missing_documents = <<"passport">>
       /\ ~ev.verdict.is_compliant
       /\ ev.verdict.compliance_score = 0

\* C20: when the retrieved guideline lists only passport under its
\* required-documents header and the submission holds a passport keyword,
\* every verdict returned has required_documents = [passport], passport
\* among present_documents, is_compliant true and compliance_score 100,
\* whatever the judgment answered.
PassportOnlyGuidelines ==
    {<<PassportGuideline>>, <<<<"Required documents:", "- Passport">>>>}

InvC20 ==
    (/\ ev.stage = "returned"
     /\ ev.guideline_texts \in PassportOnlyGuidelines
     /\ HasPassportKeyword(ev.submission))
    => /\ ev.verdict.required_documents = <<"passport">>
       /\ "passport" \in LowerAll(ev.verdict.present_documents)
       /\ ev.verdict.missing_documents = <<>>
       /\ ev.verdict.is_compliant
       /\ ev.verdict.compliance_score = 100

\* Scenario A with a judgment that found nothing present and answered not
\* compliant with score 0
WitnessC20 ==
    /\ ev.stage = "returned"
    /\ ev.guideline_texts \in PassportOnlyGuidelines
    /\ ev.submission.student_text = "Attached: passport copy"
    /\ ev.analysis.kind = "json"
    /\ ev.analysis.json.present_documents = <<>>
    /\ ev.analysis.json.is_compliant = [type |-> "bool", v |-> "false"]
    /\ Get(ev.analysis.json, "compliance_score", 100) = 0
    /\ ev.verdict.is_compliant

\* C21: for an unparsable response that holds "not compliant", no positive
\* keyword and no number a score pattern finds, _parse_compliance_analysis
\* returns is_compliant false and compliance_score 30.
ScenarioDResponse(analysis) ==
    /\ analysis.kind = "text"
    /\ Occurs("not compliant", LowerText(analysis.text))
    /\ ~\E i \in positive_indicators : Occurs(i, LowerText(analysis.text))
    /\ \A k \in 1..4 : ScoreSearch(k, LowerText(analysis.text)) = NoMatch

ClaimC21 ==
    (ev.stage \in {"parsed", "returned"} /\ ScenarioDResponse(ev.analysis))
    => /\ ~ev.compliance_data.is_compliant
       /\ ev.compliance_data.compliance_score = 30

\* C22: a delivery that reaches the gate when the Requests with its subject
\* were all created 24 hours or more ago is classified new, and the run
\* then inserts a further Request with that subject, status pending.
OutsideWindow(r) == (now - requests[r].created_at) * SecondsPerTick >= 24 * 3600

InvC22 ==
    [][\A p \in Runs :
         /\ (/\ pc[p] = "gate" /\ pc'[p] # "gate"
             /\ RequestsWithSubject(msg[p].subject) # {}
             /\ \A r \in RequestsWithSubject(msg[p].subject) : OutsideWindow(r))
            => /\ pc'[p] = "student"
               /\ requests' = requests
         /\ (pc[p] = "request" /\ pc'[p] # "request")
            => /\ Len(requests') = Len(requests) + 1
               /\ loc'[p].request = Len(requests')
               /\ requests'[Len(requests')].email_subject = msg[p].subject
               /\ requests'[Len(requests')].status = "pending"
               /\ requests'[Len(requests')].created_at = now
               /\ pc'[p] = "extract"]_vars

\* the same message was delivered twice, 24 hours apart, and the second
\* delivery's Request went through the pipeline
WitnessC22 ==
    \E p, q \in Runs :
        /\ p # q
        /\ msg[p] = msg[q]
        /\ loc[p].request # NULL /\ loc[q].request # NULL
        /\ loc[p].request < loc[q].request
        /\ (requests[loc[q].request].created_at
              - requests[loc[p].request].created_at) * SecondsPerTick >= 24 * 3600
        /\ pc[q] = "done" /\ loc[q].outcome = "success"
        /\ requests[loc[q].request].status \in {"categorized", "appointment_scheduled"}

\* C23: a run that the gate classifies as duplicate returns the id of an
\* existing Request with its subject, created within the window, and its
\* step changes no Student, Request, Document, Appointment or slot row, adds
\* no index entry and sends no notification.
Skipped(p) == pc[p] = "done" /\ loc[p].outcome = "skipped"

InvC23 ==
    [][\A p \in Runs :
         (~Skipped(p) /\ Skipped(p)')
         => /\ pc[p] = "gate"
            /\ loc'[p].returned_id \in RequestsWithSubject(msg[p].subject)
            /\ (now - requests[loc'[p].returned_id].created_at) * SecondsPerTick
                  < 24 * 3600
            /\ loc'[p].request = NULL
            /\ students' = students
            /\ requests' = requests
            /\ documents' = documents
            /\ appointments' = appointments
            /\ slots' = slots
            /\ index' = index
            /\ sent' = sent]_vars

\* a delivery was skipped after the first delivery had stored a Document,
\* an index entry and an Appointment
WitnessC23 ==
    \E p \in Runs :
        /\ Skipped(p)
        /\ loc[p].returned_id \in DOMAIN requests
        /\ requests[loc[p].returned_id].status = "appointment_scheduled"
        /\ Len(documents) = 1 /\ Len(index) = 1 /\ Len(appointments) = 1
        /\ Len(requests) = 1

\* C24: every Request that holds a categorization has a request_type of the
\* RequestType enumeration and an llm_confidence between 0 and 1.
ClaimC24 ==
    \A r \in DOMAIN requests :
        requests[r].request_type # "null"
        => /\ requests[r].request_type \in RequestType
           /\ requests[r].llm_confidence >= 0
           /\ requests[r].llm_confidence <= 1

\* C25: a delivery that reaches the gate while at least one Request with its
\* subject was created within the last 24 hours is classified duplicate and
\* creates no Request, older Requests with the subject notwithstanding.
ClaimC25 ==
    [][\A p \in Runs :
         (/\ pc[p] = "gate" /\ pc'[p] # "gate"
          /\ \E r \in RequestsWithSubject(msg[p].subject) : ~OutsideWindow(r))
         => /\ Skipped(p)'
            /\ requests' = requests]_vars

\* C26: a delivery whose subject is shared only by Requests of other sender
\* addresses is classified new, within the window as well.
ClaimC26 ==
    [][\A p \in Runs :
         (/\ pc[p] = "gate" /\ pc'[p] # "gate"
          /\ \A r \in RequestsWithSubject(msg[p].subject) :
                students[requests[r].student_id] # EmailAddress(msg[p].sender))
         => pc'[p] = "student"]_vars

\* C27: a message whose run ended in failure without a committed Request
\* is not marked read by the driver (task k of the call handles message
\* results[k] of the batch).
FailedWithoutRequest(p) ==
    /\ pc[p] = "done"
    /\ loc[p].outcome \in {"error", "raised"}
    /\ loc[p].request = NULL

ClaimC27 ==
    \A k \in DOMAIN driver.results :
        FailedWithoutRequest(k) => driver.results[k] \notin driver.read

\* the run's handler has just run for a Request that exists
HandlerRan(p) ==
    /\ pc[p] # "done"
    /\ pc'[p] = "done"
    /\ loc'[p].outcome \in {"error", "raised"}
    /\ loc[p].request # NULL

\* the stored Request is the one of the last commit, or differs from it only
\* in the audit text of the handler
OnlyAuditTextChanged(before, after) ==
    \/ after = before
    \/ /\ NoAnalysis(before.llm_analysis)
       /\ after = [before EXCEPT !.llm_analysis = [kind |-> "processing_error"]]

\* C28: when a stage raises, the handler's step leaves every slot and every
\* Appointment as they were last committed, and the run's Request differs
\* from its last committed value in nothing but the audit text
InvC28 ==
    [][\A p \in Runs :
        HandlerRan(p)
        => /\ slots' = slots
           /\ appointments' = appointments
           /\ DOMAIN requests' = DOMAIN requests
           /\ \A r \in DOMAIN requests :
                 IF r = loc[p].request
                 THEN OnlyAuditTextChanged(requests[r], requests'[r])
                 ELSE requests'[r] = requests[r]]_vars

\* the commit of the booking raised after the slot was chosen: the run ended
\* in error, its Request still categorized, the chosen slot without booking
WitnessC28 ==
    \E p \in Runs :
        /\ pc[p] = "done"
        /\ loc[p].outcome = "error"
        /\ loc[p].called
        /\ loc[p].request # NULL
        /\ requests[loc[p].request].status = "categorized"
        /\ requests[loc[p].request].appointment_id = NULL
        /\ AppointmentsOfRequest(loc[p].request) = {}
        /\ \A s \in SlotIds : slots[s].current_bookings = 0

\* the slots the claim calls available at time t
OpenByCapacity(t) ==
    {s \in DOMAIN slots :
        slots[s].current_bookings < slots[s].max_capacity /\ slots[s].slot_date > t}

\* the earliest of them, the first created among those of equal slot_date
FirstCreatedEarliest(t) ==
    CHOOSE s \in OpenByCapacity(t) :
        \A o \in OpenByCapacity(t) :
            \/ slots[s].slot_date < slots[o].slot_date
            \/ slots[s].slot_date = slots[o].slot_date /\ s <= o

\* C29: the slot query returns the earliest open slot, the first created
\* among slots of equal slot_date, and None exactly when no slot is open
ClaimC29 ==
    [][\A p \in Runs :
        (pc[p] = "schedule" /\ pc'[p] # "schedule" /\ failures' = failures)
        => IF OpenByCapacity(now) = {}
           THEN pc'[p] = "done"
           ELSE pc'[p] = "book" /\ loc'[p].slot = FirstCreatedEarliest(now)]_vars

\* C30: in every reachable state a slot's is_available flag is true exactly
\* when its current_bookings is below its max_capacity
InvC30 ==
    \A s \in DOMAIN slots :
        slots[s].is_available <=> slots[s].current_bookings < slots[s].max_capacity

\* a slot was booked up to its capacity by a committed Appointment
WitnessC30 ==
    \E s \in DOMAIN slots :
        /\ slots[s].current_bookings >= slots[s].max_capacity
        /\ ~slots[s].is_available
        /\ \E a \in DOMAIN appointments : appointments[a].slot = s

\* the document names a line of guideline text mentions, lower-cased
NamedIn(line) ==
    CASE line \in {"- Current valid passport", "- Passport",
                   "Bring your passport - no copies", "Passport is optional",
                   "Passport not needed"} -> {"passport"}
      [] line = "- Photo" -> {"photo"}
      [] OTHER -> {}

\* every document name mentioned anywhere in the retrieved guidelines
EnumeratedIn(guideline_texts) ==
    UNION {UNION {NamedIn(guideline_texts[g][i]) : i \in DOMAIN guideline_texts[g]} :
             g \in DOMAIN guideline_texts}

\* C31: every verdict returned by compare_with_guidelines has in
\* required_documents only documents that the retrieved guideline text
\* names, whatever the judgment answered, also when the extraction from the
\* guideline is empty or no guideline was retrieved.
ClaimC31 ==
    ev.stage = "returned"
    => LowerAll(ev.verdict.required_documents) \subseteq EnumeratedIn(ev.guideline_texts)

\* C32: every verdict returned by compare_with_guidelines has
\* missing_documents equal to required_documents without the documents of
\* present_documents, compared in lower case, whatever missing_documents the
\* judgment answered.
ClaimC32 ==
    ev.stage = "returned"
    => ev.verdict.missing_documents =
          NotIn(ev.verdict.required_documents, LowerAll(ev.verdict.present_documents))

\* the list extracted from the primary retrieved guideline
PrimaryExtraction ==
    _extract_required_documents_from_guideline(
        IF ev.guideline_texts # <<>> THEN ev.guideline_texts[1] ELSE <<>>)

\* C33: whenever the extraction from the primary retrieved guideline is not
\* empty, the verdict's required_documents is that list, whatever
\* required_documents the judgment answered.
InvC33 ==
    (ev.stage = "returned" /\ PrimaryExtraction # <<>>)
    => ev.verdict.required_documents = PrimaryExtraction

\* a verdict for a passport guideline whose judgment answered other
\* required documents
WitnessC33 ==
    /\ ev.stage = "returned"
    /\ PrimaryExtraction = <<"passport">>
    /\ ev.analysis.kind = "json"
    /\ ev.analysis.json.required_documents = <<"Photo", "Passport">>
    /\ ev.verdict.required_documents = <<"passport">>

\* an unparsable response with at least one negative and one positive
\* indicator
TiedResponse(analysis) ==
    /\ analysis.kind = "text"
    /\ \E i \in negative_indicators : Occurs(i, LowerText(analysis.text))
    /\ \E i \in positive_indicators : Occurs(i, LowerText(analysis.text))

\* C34: the keyword fallback resolves ties to non-compliant: an unparsable
\* response holding a negative and a positive indicator is parsed to
\* is_compliant = false.
ClaimC34 ==
    (ev.stage \in {"parsed", "returned"} /\ TiedResponse(ev.analysis))
    => ~ev.compliance_data.is_compliant

\* a response that is not the expected structure: no JSON object, or a JSON
\* object whose flag is not a boolean or whose present_documents is null
Unstructured(analysis) ==
    \/ analysis.kind = "text"
    \/ /\ analysis.kind = "json"
       /\ \/ analysis.json.is_compliant.type # "bool"
          \/ analysis.json.present_documents = None_

\* C35: for a judgment response that is not the expected structure, the call
\* of compare_with_guidelines never ends otherwise than by returning a
\* verdict.
ClaimC35 ==
    (ev.stage \notin {"input", "parsed"} /\ Unstructured(ev.analysis))
    => ev.stage = "returned"

\* the categorizer responses in which no JSON object is found
UnparsableCategoryResponses == {c \in CategoryResponses : c.kind = "text"}

\* C36: for a categorizer response that cannot be parsed,
\* _parse_categorization returns category other, confidence 0 and the
\* response itself, and the step that stores a categorization made from such
\* a response stores that response unchanged in the Request's llm_analysis.
InvC36 ==
    /\ [](\A c \in UnparsableCategoryResponses :
            _parse_categorization(c) =
                [category |-> "other", confidence |-> 0, raw_response |-> c])
    /\ [][\A p \in Runs :
            (/\ pc[p] = "categorize" /\ pc'[p] # "categorize"
             /\ failures' = failures
             /\ requests'[loc[p].request].llm_analysis.kind # "json")
            => /\ requests'[loc[p].request].llm_analysis \in UnparsableCategoryResponses
               /\ requests'[loc[p].request].request_type = "other"
               /\ requests'[loc[p].request].llm_confidence = 0
               /\ requests'[loc[p].request].status = "categorized"]_vars

\* a categorized Request holding the text of an unparsable response
WitnessC36 ==
    \E r \in DOMAIN requests :
        /\ requests[r].status = "categorized"
        /\ requests[r].llm_analysis \in UnparsableCategoryResponses
        /\ requests[r].request_type = "other"
        /\ requests[r].llm_confidence = 0

\* C37: booking conservation -- in every reachable state each slot's
\* current_bookings is the number of Appointments created for that slot.
ClaimC37 ==
    \A s \in DOMAIN slots :
        slots[s].current_bookings = Cardinality(AppointmentsOfSlot(s))

\* C38: link consistency -- in every committed state an Appointment a with
\* request_id = r exists exactly when Request r has appointment_id = a and
\* status appointment_scheduled.
ClaimC38 ==
    \A r \in DOMAIN requests, a \in DOMAIN appointments :
        appointments[a].request_id = r
        <=> (requests[r].appointment_id = a
             /\ requests[r].status = "appointment_scheduled")

\* the Student rows holding an email address
StudentsWithEmail(email) == {s \in DOMAIN students : students[s] = email}

\* C39: when two messages with different subjects from the same sender,
\* unknown before, have both been processed by runs of concurrent workers,
\* there is exactly one Student with that address and both runs ended with a
\* Request of their own; neither ended in the error result.
ClaimC39 ==
    \A p, q \in Runs :
        (/\ p # q
         /\ msg[p].sender = msg[q].sender
         /\ msg[p].subject # msg[q].subject
         /\ pc[p] = "done" /\ pc[q] = "done"
         /\ failures = 0)
        => /\ Cardinality(StudentsWithEmail(EmailAddress(msg[p].sender))) = 1
           /\ loc[p].request # NULL /\ loc[q].request # NULL
           /\ loc[p].request # loc[q].request
           /\ loc[p].outcome = "success" /\ loc[q].outcome = "success"

\* C40: a Request's confirmation is sent at most once and only to a Request
\* that is appointment_scheduled and linked to its Appointment; the step that
\* sends it, or fails to send it, starts from such a Request, changes no
\* Request, Appointment or slot, and ends the run with the success result.
InvC40 ==
    /\ [](\A r \in DOMAIN requests :
            /\ CopiesIn(r, sent) <= 1
            /\ CopiesIn(r, sent) = 1
               => /\ requests[r].status = "appointment_scheduled"
                  /\ requests[r].appointment_id \in AppointmentsOfRequest(r))
    /\ [](BagToSet(sent) \subseteq DOMAIN requests)
    /\ [][\A p \in Runs :
            (pc[p] = "notify" /\ pc'[p] # "notify")
            => /\ requests[loc[p].request].status = "appointment_scheduled"
               /\ requests[loc[p].request].appointment_id = loc[p].appointment
               /\ appointments[loc[p].appointment].request_id = loc[p].request
               /\ slots[appointments[loc[p].appointment].slot].current_bookings >= 1
               /\ requests' = requests
               /\ appointments' = appointments
               /\ slots' = slots
               /\ CopiesIn(loc[p].request, sent') <= CopiesIn(loc[p].request, sent) + 1
               /\ \A r \in DOMAIN requests :
                     r # loc[p].request => CopiesIn(r, sent') = CopiesIn(r, sent)
               /\ pc'[p] = "done"
               /\ loc'[p].outcome = "success"]_vars

\* one run's confirmation was sent and another run's sending failed: both
\* ended in success with their Requests scheduled
WitnessC40 ==
    \E p, q \in Runs :
        /\ pc[p] = "done" /\ pc[q] = "done"
        /\ loc[p].outcome = "success" /\ loc[q].outcome = "success"
        /\ loc[p].appointment # NULL /\ loc[q].appointment # NULL
        /\ CopiesIn(loc[p].request, sent) = 1
        /\ CopiesIn(loc[q].request, sent) = 0
        /\ requests[loc[q].request].status = "appointment_scheduled"
        /\ requests[loc[q].request].appointment_id = loc[q].appointment

====
